---------------------------- MODULE Spec2Model ----------------------------
(***************************************************************************)
(* Model of c++/cpp-indexer.cpp: the JobQueue (mutex + condition variable), *)
(* the worker threads, indexDirectory (spawn, scan, done, join), main, the   *)
(* two queries and the SHA256 class.                                        *)
(*                                                                          *)
(* Threads: the main thread has id 0, worker i of the threads vector has id *)
(* i (1-based).  A mutex is the set of its holders ({} when free).  The     *)
(* condition variable cv_ is the set of workers blocked in cv_.wait.        *)
(***************************************************************************)
EXTENDS Integers, Sequences, FiniteSets, TLC

\* ------------------------------------------------------------------ bounds
\* Longest sequence of entries the recursive directory iterator yields.
MaxEntries == 2
\* Largest worker count given on the command line (index <root> <workers>).
MaxWorkersArg == 2
\* Largest number of Records of a finished store handed to a query.
MaxRecords == 4
\* Largest size in MB given on the command line (find <root> <MB>).
MaxMinMB == 3
\* Longest file hashed, in blocks of 64 bytes.
MaxBlocks == 2

\* ------------------------------------------------------- program constants
\* int workers = (...) ? std::stoi(argv[3]) : 4;
DefaultWorkers == 4
\* if (argc < 3) { usage; return 1; }
MinArgc == 3
\* return 1;  (usage error)
ExitUsage == 1
\* return 0;  (normal completion)
ExitOk == 0
MainThread == 0

\* ------------------------------------------------------------- file system
\* What the scan can meet.  "ok": a regular file whose metadata and bytes can
\* be read; "nometa": a regular file for which fs::file_size /
\* fs::last_write_time throws (vanished, I/O fault); "noopen": a regular file
\* whose metadata can be read but whose byte stream cannot be opened
\* (permission denied); "dir": a readable directory (or any other entry that
\* is not a regular file); "baddir": a directory that cannot be read.
FileKinds == {"ok", "nometa", "noopen"}
EntryKinds == FileKinds \cup {"dir", "baddir"}

RECURSIVE SeqsUpTo(_, _)
SeqsUpTo(S, n) ==
    IF n = 0 THEN {<<>>}
    ELSE LET shorter == SeqsUpTo(S, n - 1)
         IN  shorter \cup {Append(s, x) : s \in {t \in shorter : Len(t) = n - 1}, x \in S}

\* A tree is the sequence of entries in the order the iterator yields them;
\* a path is the position of its entry (paths of one tree are distinct).
Trees == SeqsUpTo(EntryKinds, MaxEntries)

VARIABLES
    argv,       \* main's argument vector: <<program, mode, root, argv[3]>> cut to argc
    tree,       \* the directory tree under root
    mainpc,     \* position of the main thread
    workers,    \* main: int workers
    threads,    \* indexDirectory: threads.size()
    it,         \* indexDirectory: the directory iterator (0 before the first entry)
    joined,     \* indexDirectory: number of threads joined
    q_,         \* JobQueue::q_
    done_,      \* JobQueue::done_
    m_,         \* JobQueue::m_ (holders)
    cv_,        \* JobQueue::cv_ (workers blocked in wait)
    records,    \* indexDirectory: std::vector<Record> records
    recMutex,   \* indexDirectory: recMutex (holders)
    pc,         \* position of each worker thread
    p,          \* worker: fs::path p (0: empty path)
    r,          \* worker: Record r
    exitCode,   \* the value main returned ({} while running or when aborted)
    out,        \* std::cout: the lines printed, in order
    pushed,     \* history: the paths pushed, in order
    popped,     \* history: the path of each successful pop, in order
    doneCalls,  \* history: number of calls of JobQueue::done
    file,       \* hashFile: the bytes of the file
    fed,        \* hashFile: number of bytes of file passed to update
    ctx,        \* hashFile: SHA256 ctx (h, buffer, bitlen)
    hpc,        \* position of the thread inside hashFile
    loc,        \* transform: its locals (w, the working words, the loop index)
    blocks,     \* history: the 64-byte blocks passed to transform, in order
    digests     \* history: what each hashFile of file returned, in order

vars == <<argv, tree, mainpc, workers, threads, it, joined, q_, done_, m_, cv_,
          records, recMutex, pc, p, r, exitCode, out, pushed, popped, doneCalls,
          file, fed, ctx, hpc, loc, blocks, digests>>

mainVars == <<mainpc, workers, threads, it, joined>>
queueVars == <<q_, done_, m_, cv_>>
workerLocals == <<p, r>>
history == <<pushed, popped, doneCalls>>
hashVars == <<file, fed, ctx, hpc, loc, blocks, digests>>

\* ------------------------------------------------------------ command line
Modes == {"index", "find", "checksum"}

Digits == <<"0", "1", "2", "3", "4", "5", "6", "7", "8", "9">>
IsDigit(c) == \E d \in 1..10 : Digits[d] = c
DigitVal(c) == (CHOOSE d \in 1..10 : Digits[d] = c) - 1

\* The decimal text of a small integer, as a sequence of characters.
IntText(n) ==
    LET a == IF n < 0 THEN -n ELSE n
        body == IF a < 10 THEN <<Digits[a + 1]>>
                ELSE <<Digits[(a \div 10) + 1], Digits[(a % 10) + 1]>>
    IN  IF n < 0 THEN <<"-">> \o body ELSE body

\* Value of the longest prefix of digits of s (0 for none), left to right.
RECURSIVE DigitsValue(_, _)
DigitsValue(s, acc) ==
    IF s = <<>> \/ ~IsDigit(Head(s)) THEN acc
    ELSE DigitsValue(Tail(s), 10 * acc + DigitVal(Head(s)))

\* std::stoi: an optional sign, then digits; trailing text is ignored;
\* without a digit it throws std::invalid_argument (ok = FALSE).
stoi(s) ==
    LET neg  == s # <<>> /\ Head(s) = "-"
        rest == IF s # <<>> /\ Head(s) \in {"-", "+"} THEN Tail(s) ELSE s
    IN  IF rest = <<>> \/ ~IsDigit(Head(rest)) THEN [ok |-> FALSE, val |-> 0]
        ELSE [ok |-> TRUE,
              val |-> IF neg THEN -DigitsValue(rest, 0) ELSE DigitsValue(rest, 0)]

WorkerTexts == {IntText(n) : n \in (-1)..MaxWorkersArg} \cup {<<"x">>}

\* Command lines with an explicit worker count (and one too short).
PoolArgvSet ==
    {<<"prog">>} \cup {<<"prog", "index", "root", t>> : t \in WorkerTexts}

\* Command lines that start at least one worker (and one too short).
ActiveArgvSet ==
    {<<"prog">>} \cup {<<"prog", "index", "root", IntText(n)>> : n \in 1..MaxWorkersArg}

\* Every shape of command line: too short, the three subcommands without and
\* with argv[3].
ArgvSet ==
    PoolArgvSet
    \cup {<<"prog", m>> : m \in Modes}
    \cup {<<"prog", m, "root">> : m \in Modes}
    \cup {<<"prog", "find", "root", <<"1">>>>, <<"prog", "checksum", "root", <<"a">>>>}

argc == Len(argv)
mode == argv[2]

\* ------------------------------------------------------------------- Init
MaxThreads == IF DefaultWorkers > MaxWorkersArg THEN DefaultWorkers ELSE MaxWorkersArg
Threads == 1..MaxThreads

\* ------------------------------------------------------------------ files
\* 1024ULL * 1024ULL
MiB == 1048576

\* The attributes of the file at a path.  The files of a tree are told apart
\* by their position: the first two (and the fourth's prefix) share the
\* basename "a" in different directories, the contents of all are different.
\* Sizes lie on and around whole numbers of MiB.
FileNames == << <<"a">>, <<"a">>, <<"b">>, <<"a", "b">> >>
FileSizes == <<MiB, MiB + 1, 2 * MiB - 1, 3 * MiB>>
FileDigests == <<"d1", "d2", "d3", "d4">>
Attr(table, path) == table[((path - 1) % Len(table)) + 1]

\* Record r;  (default-constructed: empty strings, size 0; mtime is not modelled,
\* no query reads it)
NoRecord == [filename |-> <<>>, path |-> 0, size |-> 0, hash |-> ""]

\* --------------------------------------------------------- SHA256: words
\* A uint32 is the pair <<high 16 bits, low 16 bits>>; a byte is 0..255.
Half == 65536
Word(hi, lo) == <<hi, lo>>

\* std::array<uint32, 8> h = { 0x6a09e667, ... };
h_init ==
    << Word(\h6a09, \he667), Word(\hbb67, \hae85), Word(\h3c6e, \hf372), Word(\ha54f, \hf53a),
       Word(\h510e, \h527f), Word(\h9b05, \h688c), Word(\h1f83, \hd9ab), Word(\h5be0, \hcd19) >>

\* Bitwise operators of two 16-bit halves, bit by bit from the low end.
RECURSIVE BitAnd(_, _)
BitAnd(a, b) ==
    IF a = 0 \/ b = 0 THEN 0
    ELSE ((a % 2) * (b % 2)) + 2 * BitAnd(a \div 2, b \div 2)

RECURSIVE BitOr(_, _)
BitOr(a, b) ==
    IF a = 0 THEN b
    ELSE IF b = 0 THEN a
    ELSE (IF a % 2 = 1 \/ b % 2 = 1 THEN 1 ELSE 0) + 2 * BitOr(a \div 2, b \div 2)

RECURSIVE BitXor(_, _)
BitXor(a, b) ==
    IF a = 0 THEN b
    ELSE IF b = 0 THEN a
    ELSE ((a + b) % 2) + 2 * BitXor(a \div 2, b \div 2)

\* x & y, x | y, x ^ y, ~x on uint32
And32(x, y) == Word(BitAnd(x[1], y[1]), BitAnd(x[2], y[2]))
Or32(x, y) == Word(BitOr(x[1], y[1]), BitOr(x[2], y[2]))
Xor32(x, y) == Word(BitXor(x[1], y[1]), BitXor(x[2], y[2]))
Not32(x) == Word(Half - 1 - x[1], Half - 1 - x[2])

\* An addition that loses the carry out of the low 16 bits.
Add32_noCarry(x, y) == Word((x[1] + y[1]) % Half, (x[2] + y[2]) % Half)

\* x + y on uint32: modulo 2^32 (the carry out of the high half is dropped).
Add32(x, y) ==
    LET lo == x[2] + y[2]
    IN  Word((x[1] + y[1] + (lo \div Half)) % Half, lo % Half)

\* x >> n and x << n on uint32, 0 < n < 32
Shr32(x, n) ==
    IF n < 16
    THEN Word(x[1] \div 2^n, (x[2] \div 2^n) + ((x[1] % 2^n) * 2^(16 - n)))
    ELSE Word(0, x[1] \div 2^(n - 16))

Shl32(x, n) ==
    IF n < 16
    THEN Word(((x[1] * 2^n) % Half) + (x[2] \div 2^(16 - n)), (x[2] * 2^n) % Half)
    ELSE Word((x[2] * 2^(n - 16)) % Half, 0)

\* --------------------------------------------------- SHA256: compression
\* return (x >> n) | (x << (32 - n));
rotr(x, n) == Or32(Shr32(x, n), Shl32(x, 32 - n))

\* return (e & f) ^ (~e & g);
choose(e, f, g) == Xor32(And32(e, f), And32(Not32(e), g))

\* return (a & b) ^ (a & c) ^ (b & c);
majority(a, b, c) == Xor32(Xor32(And32(a, b), And32(a, c)), And32(b, c))

\* return rotr(x, 7) ^ rotr(x, 18) ^ (x >> 3);
sig0(x) == Xor32(Xor32(rotr(x, 7), rotr(x, 18)), Shr32(x, 3))

\* return rotr(x, 17) ^ rotr(x, 19) ^ (x >> 10);
sig1(x) == Xor32(Xor32(rotr(x, 17), rotr(x, 19)), Shr32(x, 10))

\* return rotr(x, 2) ^ rotr(x, 13) ^ rotr(x, 22);
ep0(x) == Xor32(Xor32(rotr(x, 2), rotr(x, 13)), rotr(x, 22))

\* return rotr(x, 6) ^ rotr(x, 11) ^ rotr(x, 25);
ep1(x) == Xor32(Xor32(rotr(x, 6), rotr(x, 11)), rotr(x, 25))

\* static const uint32 k[64] = { 0x428a2f98, ... };  (k[i] of the code is k[i + 1])
k ==
    << Word(\h428a, \h2f98), Word(\h7137, \h4491), Word(\hb5c0, \hfbcf), Word(\he9b5, \hdba5),
       Word(\h3956, \hc25b), Word(\h59f1, \h11f1), Word(\h923f, \h82a4), Word(\hab1c, \h5ed5),
       Word(\hd807, \haa98), Word(\h1283, \h5b01), Word(\h2431, \h85be), Word(\h550c, \h7dc3),
       Word(\h72be, \h5d74), Word(\h80de, \hb1fe), Word(\h9bdc, \h06a7), Word(\hc19b, \hf174),
       Word(\he49b, \h69c1), Word(\hefbe, \h4786), Word(\h0fc1, \h9dc6), Word(\h240c, \ha1cc),
       Word(\h2de9, \h2c6f), Word(\h4a74, \h84aa), Word(\h5cb0, \ha9dc), Word(\h76f9, \h88da),
       Word(\h983e, \h5152), Word(\ha831, \hc66d), Word(\hb003, \h27c8), Word(\hbf59, \h7fc7),
       Word(\hc6e0, \h0bf3), Word(\hd5a7, \h9147), Word(\h06ca, \h6351), Word(\h1429, \h2967),
       Word(\h27b7, \h0a85), Word(\h2e1b, \h2138), Word(\h4d2c, \h6dfc), Word(\h5338, \h0d13),
       Word(\h650a, \h7354), Word(\h766a, \h0abb), Word(\h81c2, \hc92e), Word(\h9272, \h2c85),
       Word(\ha2bf, \he8a1), Word(\ha81a, \h664b), Word(\hc24b, \h8b70), Word(\hc76c, \h51a3),
       Word(\hd192, \he819), Word(\hd699, \h0624), Word(\hf40e, \h3585), Word(\h106a, \ha070),
       Word(\h19a4, \hc116), Word(\h1e37, \h6c08), Word(\h2748, \h774c), Word(\h34b0, \hbcb5),
       Word(\h391c, \h0cb3), Word(\h4ed8, \haa4a), Word(\h5b9c, \hca4f), Word(\h682e, \h6ff3),
       Word(\h748f, \h82ee), Word(\h78a5, \h636f), Word(\h84c8, \h7814), Word(\h8cc7, \h0208),
       Word(\h90be, \hfffa), Word(\ha450, \h6ceb), Word(\hbef9, \ha3f7), Word(\hc671, \h78f2) >>

\* while (buffer.size() >= 64): the size of a block
BlockSize == 64

\* w[i] = (chunk[i * 4] << 24) | (chunk[i * 4 + 1] << 16) | (chunk[i * 4 + 2] << 8)
\*        | (chunk[i * 4 + 3]);   for i < 16 (w[i] of the code is w[i + 1])
FirstWords(chunk) ==
    [i \in 1..16 |-> Word(chunk[4 * i - 3] * 256 + chunk[4 * i - 2],
                          chunk[4 * i - 1] * 256 + chunk[4 * i])]

\* w[i] = sig1(w[i - 2]) + w[i - 7] + sig0(w[i - 15]) + w[i - 16];
NextWord(w, i) ==
    Add32(Add32(Add32(sig1(w[i - 1]), w[i - 6]), sig0(w[i - 14])), w[i - 15])

\* One pass of the round loop over s = <<a, b, c, d, e, f, g, hh>>.
Round(s, w, i) ==
    LET t1 == Add32(Add32(Add32(Add32(s[8], ep1(s[5])), choose(s[5], s[6], s[7])),
                          k[i + 1]), w[i + 1])
        t2 == Add32(ep0(s[1]), majority(s[1], s[2], s[3]))
    IN  [s EXCEPT ![8] = s[7], ![7] = s[6], ![6] = s[5], ![5] = Add32(s[4], t1),
                  ![4] = s[3], ![3] = s[2], ![2] = s[1], ![1] = Add32(t1, t2)]

\* h[0] += a; ... h[7] += hh;
AddWords(h, s) == [i \in 1..8 |-> Add32(h[i], s[i])]

\* The locals of transform(chunk) at the start of its second loop.
Call(chunk, h, ret) == [w |-> FirstWords(chunk), s |-> h, i |-> 16, ret |-> ret]

\* ------------------------------------------------ SHA256: update and final
\* An update that leaves a buffer of exactly one block uncompressed.
MoreBlocks_notLast(buffer) == Len(buffer) > BlockSize

\* while (buffer.size() >= 64)
MoreBlocks(buffer) == Len(buffer) >= BlockSize

\* An erase that empties the buffer.
Erase_all(buffer) == <<>>

\* buffer.erase(buffer.begin(), buffer.begin() + 64);
Erase(buffer) == SubSeq(buffer, BlockSize + 1, Len(buffer))

\* buffer.data() as transform reads it: the first 64 bytes
Front(buffer) == SubSeq(buffer, 1, BlockSize)

\* (bitlen >> (i * 8)) & 0xff
RECURSIVE LengthByte(_, _)
LengthByte(bitlen, i) ==
    IF i = 0 THEN bitlen % 256 ELSE LengthByte(bitlen \div 256, i - 1)

\* final: buffer.push_back(0x80); while (buffer.size() % 64 != 56)
\* buffer.push_back(0); for (int i = 7; i >= 0; i--) buffer.push_back(...);
Pad(buffer, bitlen) ==
    LET zeros == (56 - (Len(buffer) + 1)) % BlockSize
    IN  buffer \o <<128>> \o [i \in 1..zeros |-> 0]
               \o [i \in 1..8 |-> LengthByte(bitlen, 8 - i)]

\* out << std::hex << std::setw(8) << std::setfill('0') << x: the eight
\* lowercase digits of a word, as characters.
HexDigits == <<"0", "1", "2", "3", "4", "5", "6", "7", "8", "9", "a", "b", "c", "d", "e", "f">>
HexHalf(v) ==
    <<HexDigits[(v \div 4096) + 1], HexDigits[((v \div 256) % 16) + 1],
      HexDigits[((v \div 16) % 16) + 1], HexDigits[(v % 16) + 1]>>
HexWord(x) == HexHalf(x[1]) \o HexHalf(x[2])

\* for (auto x : h) out << ...;  return out.str();
Hex(h) ==
    HexWord(h[1]) \o HexWord(h[2]) \o HexWord(h[3]) \o HexWord(h[4])
    \o HexWord(h[5]) \o HexWord(h[6]) \o HexWord(h[7]) \o HexWord(h[8])

\* std::vector<uint8_t> buffer;  uint64 bitlen = 0;
NewCtx == [h |-> h_init, buffer |-> <<>>, bitlen |-> 0]

\* transform is not running.
NoLocals == [w |-> <<>>, s |-> <<>>, i |-> 0, ret |-> ""]

\* No hashFile is under way (the digest of a file is then given by FileDigests).
NoHashing ==
    /\ file = <<>>
    /\ fed = 0
    /\ ctx = NewCtx
    /\ hpc = "idle"
    /\ loc = NoLocals
    /\ blocks = <<>>
    /\ digests = <<>>

InitWith(args) ==
    /\ argv \in args
    /\ tree \in Trees
    /\ mainpc = "main"
    /\ workers = 0
    /\ threads = 0
    /\ it = 0
    /\ joined = 0
    /\ q_ = <<>>
    /\ done_ = FALSE
    /\ m_ = {}
    /\ cv_ = {}
    /\ records = <<>>
    /\ recMutex = {}
    /\ pc = [w \in Threads |-> "unspawned"]
    /\ p = [w \in Threads |-> 0]
    /\ r = [w \in Threads |-> NoRecord]
    /\ exitCode = {}
    /\ out = <<>>
    /\ pushed = <<>>
    /\ popped = <<>>
    /\ doneCalls = 0
    /\ NoHashing

Init == InitWith(ArgvSet)

PoolInit == InitWith(PoolArgvSet)

ActiveInit == InitWith(ActiveArgvSet)

\* The process is running: main has not returned and std::terminate was not called.
Alive == mainpc \notin {"exited", "terminated"}

\* ------------------------------------------------------------ JobQueue
\* cv_.notify_one(): wakes one of the blocked workers, if any (the possible
\* sets of workers still blocked afterwards).
NotifyOne(waiters) ==
    IF waiters = {} THEN {{}} ELSE {waiters \ {x} : x \in waiters}

\* done() waking a single worker (notify_one in place of notify_all).
NotifyAll_wakesOne(waiters) ==
    IF waiters = {} THEN {{}} ELSE {waiters \ {x} : x \in waiters}

\* cv_.notify_all(): wakes every blocked worker.
NotifyAll(waiters) == {{}}

\* A woken worker leaves wait() by locking m_ again.
Wake(before, after) ==
    [w \in Threads |-> IF w \in before \ after THEN "wait_relock" ELSE pc[w]]

\* A pop that never waits (no predicate, no wait).
WaitPred_neverWaits(d, q) == TRUE

\* The predicate of cv_.wait: [&]{ return done_ || !q_.empty(); }
WaitPred(d, q) == d \/ q # <<>>

\* if (q_.empty()) return false;
PopClosed(q) == q = <<>>

\* A push at the front of the queue.
QPush_front(q, x) == <<x>> \o q

\* q_.push(p);
QPush(q, x) == Append(q, x)

\* A pop that reads the front and leaves it in the queue.
QPop_keepsFront(q) == q

\* q_.pop();
QPop(q) == Tail(q)

\* ------------------------------------------------------------------ main
\* if (argc < 3) { usage; return 1; }
main_usage ==
    /\ mainpc = "main"
    /\ argc < MinArgc
    /\ mainpc' = "exited"
    /\ exitCode' = {ExitUsage}
    /\ UNCHANGED <<argv, tree, hashVars, out, workers, threads, it, joined, queueVars, records,
                   recMutex, pc, workerLocals, history>>

\* int workers = (argc >= 4 && mode == "index") ? std::stoi(argv[3]) : 4;
\* an exception of std::stoi leaves main: std::terminate.
main_workers ==
    /\ mainpc = "main"
    /\ argc >= MinArgc
    /\ IF argc >= 4 /\ mode = "index"
       THEN IF stoi(argv[4]).ok
            THEN workers' = stoi(argv[4]).val /\ mainpc' = "spawn"
            ELSE workers' = workers /\ mainpc' = "terminated"
       ELSE workers' = DefaultWorkers /\ mainpc' = "spawn"
    /\ UNCHANGED <<argv, tree, hashVars, out, threads, it, joined, queueVars, records, recMutex, pc,
                   workerLocals, exitCode, history>>

\* for (int i = 0; i < workers; ++i) threads.emplace_back(worker, ...);
spawn ==
    /\ mainpc = "spawn"
    /\ IF threads < workers
       THEN /\ threads' = threads + 1
            /\ pc' = [pc EXCEPT ![threads + 1] = "pop_lock"]
            /\ mainpc' = mainpc
       ELSE /\ mainpc' = "scan"
            /\ UNCHANGED <<threads, pc>>
    /\ UNCHANGED <<argv, tree, hashVars, out, workers, it, joined, queueVars, records, recMutex,
                   workerLocals, exitCode, history>>

\* for (auto& entry : fs::recursive_directory_iterator(root)): one step of the
\* iterator.  Leaving a directory entry that cannot be read throws
\* filesystem_error (directory_options::none); the exception leaves
\* indexDirectory and main, and the joinable threads: std::terminate.
scan ==
    /\ mainpc = "scan"
    /\ IF it > 0 /\ tree[it] = "baddir"
       THEN mainpc' = "terminated" /\ it' = it
       ELSE IF it = Len(tree)
       THEN mainpc' = "done_lock" /\ it' = it
       ELSE /\ it' = it + 1
            \* if (entry.is_regular_file()) jobs.push(entry.path());
            /\ mainpc' = IF tree[it + 1] \in FileKinds THEN "push_lock" ELSE "scan"
    /\ UNCHANGED <<argv, tree, hashVars, out, workers, threads, joined, queueVars, records, recMutex,
                   pc, workerLocals, exitCode, history>>

\* JobQueue::push: std::lock_guard<std::mutex> lock(m_);
push_lock ==
    /\ mainpc = "push_lock"
    /\ m_ = {}
    /\ m_' = {MainThread}
    /\ mainpc' = "push"
    /\ UNCHANGED <<argv, tree, hashVars, out, workers, threads, it, joined, q_, done_, cv_, records,
                   recMutex, pc, workerLocals, exitCode, history>>

\* JobQueue::push: q_.push(p); cv_.notify_one(); (unlock)
push ==
    /\ mainpc = "push"
    /\ m_ = {MainThread}
    /\ q_' = QPush(q_, it)
    /\ pushed' = Append(pushed, it)
    /\ \E after \in NotifyOne(cv_) :
          /\ cv_' = after
          /\ pc' = Wake(cv_, after)
    /\ m_' = {}
    /\ mainpc' = "scan"
    /\ UNCHANGED <<argv, tree, hashVars, out, workers, threads, it, joined, done_, records, recMutex,
                   workerLocals, exitCode, popped, doneCalls>>

\* JobQueue::done: std::lock_guard<std::mutex> lock(m_);
done_lock ==
    /\ mainpc = "done_lock"
    /\ m_ = {}
    /\ m_' = {MainThread}
    /\ mainpc' = "done"
    /\ UNCHANGED <<argv, tree, hashVars, out, workers, threads, it, joined, q_, done_, cv_, records,
                   recMutex, pc, workerLocals, exitCode, history>>

\* JobQueue::done: done_ = true; cv_.notify_all(); (unlock)
done ==
    /\ mainpc = "done"
    /\ m_ = {MainThread}
    /\ done_' = TRUE
    /\ doneCalls' = doneCalls + 1
    /\ \E after \in NotifyAll(cv_) :
          /\ cv_' = after
          /\ pc' = Wake(cv_, after)
    /\ m_' = {}
    /\ mainpc' = "join"
    /\ UNCHANGED <<argv, tree, hashVars, out, workers, threads, it, joined, q_, records, recMutex,
                   workerLocals, exitCode, pushed, popped>>

\* A join that does not wait for the thread (the thread detached).
Joinable_detached(t) == TRUE

\* t.join() returns once thread t has returned from worker().
Joinable(t) == pc[t] = "exit"

\* for (auto& t : threads) t.join();  return records;
join ==
    /\ mainpc = "join"
    /\ IF joined < threads
       THEN /\ Joinable(joined + 1)
            /\ joined' = joined + 1
            /\ mainpc' = mainpc
       ELSE /\ mainpc' = "returned"
            /\ joined' = joined
    /\ UNCHANGED <<argv, tree, hashVars, out, workers, threads, it, queueVars, records, recMutex, pc,
                   workerLocals, exitCode, history>>

\* ---------------------------------------------------------------------------
\* Unsigned 64-bit arithmetic.  A natural number is the sequence of its 16-bit
\* limbs, the lowest first; a uint64_t / unsigned long long has LimbsOf64 of
\* them, so that its arithmetic is modulo 2^64.
\* ---------------------------------------------------------------------------

LimbsOf64 == 4

\* The limb i of the number x (0 above its highest limb).
Limb(x, i) == IF i <= Len(x) THEN x[i] ELSE 0

\* x * m + c as a mathematical integer, for a small m and c.
RECURSIVE MulAdd(_, _, _)
MulAdd(x, m, c) ==
    IF x = <<>>
    THEN IF c = 0 THEN <<>> ELSE <<c % Half>> \o MulAdd(<<>>, m, c \div Half)
    ELSE LET t == Head(x) * m + c
         IN  <<t % Half>> \o MulAdd(Tail(x), m, t \div Half)

\* x < y for two natural numbers.
Less(x, y) ==
    LET n == IF Len(x) > Len(y) THEN Len(x) ELSE Len(y)
    IN  \E i \in 1..n :
            /\ Limb(x, i) < Limb(y, i)
            /\ \A j \in (i + 1)..n : Limb(x, j) = Limb(y, j)

\* The value fits an unsigned long long.
Fits64(x) == \A i \in (LimbsOf64 + 1)..Len(x) : x[i] = 0

\* The conversion to uint64_t: the value modulo 2^64.
Trunc64(x) == [i \in 1..LimbsOf64 |-> Limb(x, i)]

\* The uint64_t of a file size (the sizes of the files here are below 2^31).
U64(n) == Trunc64(<<n % Half, n \div Half>>)

\* Unary minus of an unsigned long long: 2^64 - x, modulo 2^64.
Neg64(x) == Trunc64(MulAdd([i \in 1..LimbsOf64 |-> Half - 1 - x[i]], 1, 1))

\* The product of two unsigned long long: modulo 2^64.
Mul64(x, m) == Trunc64(MulAdd(x, m, 0))

\* The digits at the start of s, read in base 10 after acc.
RECURSIVE DigitsNat(_, _)
DigitsNat(s, acc) ==
    IF s = <<>> \/ ~IsDigit(Head(s)) THEN acc
    ELSE DigitsNat(Tail(s), MulAdd(acc, 10, DigitVal(Head(s))))

\* std::stoull (strtoull, base 10): an optional sign, then the digits; trailing
\* text is ignored; a "-" negates the value as an unsigned long long; without
\* a digit it throws std::invalid_argument, and above 2^64 - 1
\* std::out_of_range (ok = FALSE).
stoull(s) ==
    LET neg  == s # <<>> /\ Head(s) = "-"
        rest == IF neg THEN Tail(s) ELSE s
        v    == DigitsNat(rest, <<>>)
    IN  IF rest = <<>> \/ ~IsDigit(Head(rest)) \/ ~Fits64(v)
        THEN [ok |-> FALSE, val |-> U64(0)]
        ELSE [ok |-> TRUE, val |-> IF neg THEN Neg64(Trunc64(v)) ELSE Trunc64(v)]

\* 1024ULL
Kibi == 1024

\* uint64_t threshold = minMB * 1024ULL * 1024ULL;
threshold(minMB) == Mul64(Mul64(minMB, Kibi), Kibi)

\* A comparison that also takes a size equal to the threshold.
Exceeds_orEquals(size, limit) == ~Less(size, limit)

\* if (r.size > threshold)
Exceeds(size, limit) == Less(limit, size)

\* queryFind: the lines "<path> <size>" it prints, in order.
\* for (const auto& r : records) if (r.size > threshold) std::cout << ...
queryFind(recs, minMB) ==
    LET hits == SelectSeq(recs, LAMBDA rec : Exceeds(U64(rec.size), threshold(minMB)))
    IN  [i \in 1..Len(hits) |-> [path |-> hits[i].path, size |-> hits[i].size]]

\* std::cout << "File not found\n";
NotFound == "File not found"

\* A scan that keeps the last Record of that filename.
queryChecksum_lastMatch(recs, filename) ==
    LET matches == {i \in 1..Len(recs) : recs[i].filename = filename}
    IN  IF matches = {} THEN <<NotFound>>
        ELSE <<recs[CHOOSE i \in matches : \A j \in matches : j <= i].hash>>

\* queryChecksum: the line it prints: the hash of the first Record whose
\* filename is equal (then return), "File not found" after the loop.
queryChecksum(recs, filename) ==
    LET matches == {i \in 1..Len(recs) : recs[i].filename = filename}
    IN  IF matches = {} THEN <<NotFound>>
        ELSE <<recs[CHOOSE i \in matches : \A j \in matches : i <= j].hash>>

\* What the build can do with std::string(argv[3]) when argv[3] is the null
\* pointer argv[argc] (undefined behaviour): throw std::logic_error or fault
\* (the process is killed), or go on with some string.
NullStringOutcomes == {"terminated", "exited"}

\* main after indexDirectory: queryFind(records, std::stoull(argv[3])) /
\* queryChecksum(records, argv[3]); return 0;
\* an exception of std::stoull leaves main: std::terminate.
query ==
    /\ mainpc = "returned"
    /\ IF mode \in {"find", "checksum"} /\ argc < 4
       THEN mainpc' \in NullStringOutcomes /\ out' = out
       ELSE IF mode = "find"
       THEN IF stoull(argv[4]).ok
            THEN out' = queryFind(records, stoull(argv[4]).val) /\ mainpc' = "exited"
            ELSE out' = out /\ mainpc' = "terminated"
       ELSE IF mode = "checksum"
       THEN out' = queryChecksum(records, argv[4]) /\ mainpc' = "exited"
       ELSE out' = out /\ mainpc' = "exited"
    /\ exitCode' = IF mainpc' = "exited" THEN {ExitOk} ELSE {}
    /\ UNCHANGED <<argv, tree, hashVars, workers, threads, it, joined, queueVars, records,
                   recMutex, pc, workerLocals, history>>

MainStep ==
    \/ main_usage
    \/ main_workers
    \/ spawn
    \/ scan
    \/ push_lock
    \/ push
    \/ done_lock
    \/ done
    \/ join
    \/ query

\* ---------------------------------------------------------------- worker
\* SHA256::hashFile: if (!file) return ""; otherwise the digest of the bytes.
hashFile(path) == IF tree[path] = "noopen" THEN "" ELSE Attr(FileDigests, path)

\* fs::file_size(p) / fs::last_write_time(p) throw when the metadata cannot be read.
MetadataThrows(path) == tree[path] = "nometa"

\* The try block up to the hash: the Record of path.
MakeRecord(path) ==
    [filename |-> Attr(FileNames, path), path |-> path, size |-> Attr(FileSizes, path),
     hash |-> hashFile(path)]

\* An exception that ends the worker's loop (the try around the while).
AfterCatch_leavesLoop == "exit"

\* Where the worker goes after catch (...) { }: the next iteration of while (jobs.pop(p)).
AfterCatch == "pop_lock"

\* JobQueue::pop: std::unique_lock<std::mutex> lock(m_);
\* and cv_.wait locking m_ again after a wakeup, before it evaluates pred again.
pop_lock(w) ==
    /\ Alive
    /\ pc[w] \in {"pop_lock", "wait_relock"}
    /\ m_ = {}
    /\ m_' = {w}
    /\ pc' = [pc EXCEPT ![w] = "pop"]
    /\ UNCHANGED <<argv, tree, hashVars, out, mainVars, q_, done_, cv_, records, recMutex,
                   workerLocals, exitCode, history>>

\* A unique_lock that stays locked when pop returns.
unlock_never(w) == {w}

\* The holder of m_ after worker w has unlocked it: cv_.wait unlocks m_ before
\* it blocks, and the destructor of the unique_lock unlocks it at every return
\* of pop.
unlock(w) == {}

\* JobQueue::pop with m_ held: cv_.wait(lock, pred) evaluates pred; when it is
\* false the worker unlocks m_ and blocks; when it is true pop goes on:
\* if (q_.empty()) return false;  p = q_.front(); q_.pop(); return true;
pop(w) ==
    /\ Alive
    /\ pc[w] = "pop"
    /\ m_ = {w}
    /\ m_' = unlock(w)
    /\ IF ~WaitPred(done_, q_)
       THEN /\ cv_' = cv_ \cup {w}
            /\ pc' = [pc EXCEPT ![w] = "pop_wait"]
            /\ UNCHANGED <<q_, p, popped>>
       ELSE IF PopClosed(q_)
       THEN /\ pc' = [pc EXCEPT ![w] = "exit"]
            /\ UNCHANGED <<q_, cv_, p, popped>>
       ELSE /\ p' = [p EXCEPT ![w] = Head(q_)]
            /\ q_' = QPop(q_)
            /\ popped' = Append(popped, Head(q_))
            /\ pc' = [pc EXCEPT ![w] = "index"]
            /\ cv_' = cv_
    /\ UNCHANGED <<argv, tree, hashVars, out, mainVars, done_, records, recMutex, r, exitCode,
                   pushed, doneCalls>>

\* A spurious wakeup of cv_.wait (std::condition_variable allows it).
spurious_wakeup(w) ==
    /\ Alive
    /\ pc[w] = "pop_wait"
    /\ w \in cv_
    /\ cv_' = cv_ \ {w}
    /\ pc' = [pc EXCEPT ![w] = "wait_relock"]
    /\ UNCHANGED <<argv, tree, hashVars, out, mainVars, q_, done_, m_, records, recMutex,
                   workerLocals, exitCode, history>>

\* The try block of worker: metadata and hash of p into Record r; an exception
\* is caught by catch (...) and the loop goes on.
index(w) ==
    /\ Alive
    /\ pc[w] = "index"
    /\ IF MetadataThrows(p[w])
       THEN /\ pc' = [pc EXCEPT ![w] = AfterCatch]
            /\ r' = r
       ELSE /\ r' = [r EXCEPT ![w] = MakeRecord(p[w])]
            /\ pc' = [pc EXCEPT ![w] = "rec_lock"]
    /\ UNCHANGED <<argv, tree, hashVars, out, mainVars, queueVars, records, recMutex, p, exitCode,
                   history>>

\* A lock that does not wait for the holder of the mutex.
Unlocked_ignored(mutex) == TRUE

\* std::lock_guard waits until the mutex has no holder.
Unlocked(mutex) == mutex = {}

\* std::lock_guard<std::mutex> lock(recMutex);
rec_lock(w) ==
    /\ Alive
    /\ pc[w] = "rec_lock"
    /\ Unlocked(recMutex)
    /\ recMutex' = {w}
    /\ pc' = [pc EXCEPT ![w] = "push_back"]
    /\ UNCHANGED <<argv, tree, hashVars, out, mainVars, queueVars, records, workerLocals, exitCode,
                   history>>

\* records.push_back(std::move(r)); (unlock; r goes out of scope)
push_back(w) ==
    /\ Alive
    /\ pc[w] = "push_back"
    /\ recMutex = {w}
    /\ records' = Append(records, r[w])
    /\ recMutex' = {}
    /\ r' = [r EXCEPT ![w] = NoRecord]
    /\ pc' = [pc EXCEPT ![w] = "pop_lock"]
    /\ UNCHANGED <<argv, tree, hashVars, out, mainVars, queueVars, p, exitCode, history>>

WorkerStep(w) ==
    \/ pop_lock(w)
    \/ pop(w)
    \/ index(w)
    \/ rec_lock(w)
    \/ push_back(w)

\* -------------------------------------------------------------- hashFile
\* char buf[8192];
sizeof_buf == 8192

\* The buffer sizes update is driven with: that of hashFile, and smaller
\* ones that split the file inside and across blocks.
BufSizes == {1, 60, sizeof_buf}

\* The files hashed: the bytes "abcdefg..." cut to a length on or next to the
\* block and padding boundaries ("" and "abc" among them).
Byte(i) == 97 + ((i - 1) % 26)
Residues == {0, 3, 55, 56, 63}
Lengths ==
    {BlockSize * b + x : b \in 0..(MaxBlocks - 1), x \in Residues} \cup {BlockSize * MaxBlocks}
Files == {[i \in 1..n |-> Byte(i)] : n \in Lengths}

Min(a, b) == IF a < b THEN a ELSE b

\* while (file.read(buf, sizeof(buf)) || file.gcount()) ctx.update(buf, file.gcount());
\* with update's  buffer.insert(buffer.end(), data, data + len); bitlen += len * 8;
\* At the end of the file the loop is left for ctx.final().  The first hashFile
\* of a file reads with buf as declared, the second with any of BufSizes.
hashFile_read ==
    /\ hpc = "read"
    /\ IF fed < Len(file)
       THEN \E size \in (IF digests = <<>> THEN {sizeof_buf} ELSE BufSizes) :
               LET len == Min(size, Len(file) - fed)
               IN  /\ ctx' = [ctx EXCEPT !.buffer = @ \o SubSeq(file, fed + 1, fed + len),
                                         !.bitlen = @ + len * 8]
                   /\ fed' = fed + len
                   /\ hpc' = "update"
       ELSE /\ hpc' = "final"
            /\ UNCHANGED <<ctx, fed>>
    /\ UNCHANGED <<argv, tree, mainVars, queueVars, records, recMutex, pc, workerLocals,
                   exitCode, out, history, file, loc, blocks, digests>>

\* update: while (buffer.size() >= 64) { transform(buffer.data()); ...
update_loop ==
    /\ hpc = "update"
    /\ IF MoreBlocks(ctx.buffer)
       THEN /\ loc' = Call(Front(ctx.buffer), ctx.h, "erase")
            /\ blocks' = Append(blocks, Front(ctx.buffer))
            /\ hpc' = "w"
       ELSE /\ hpc' = "read"
            /\ UNCHANGED <<loc, blocks>>
    /\ UNCHANGED <<argv, tree, mainVars, queueVars, records, recMutex, pc, workerLocals,
                   exitCode, out, history, file, fed, ctx, digests>>

\* transform: for (int i = 16; i < 64; i++) w[i] = ...;  then a = h[0], ...
transform_w ==
    /\ hpc = "w"
    /\ loc' = [loc EXCEPT !.w = Append(@, NextWord(loc.w, loc.i)),
                          !.i = IF loc.i + 1 < 64 THEN loc.i + 1 ELSE 0]
    /\ hpc' = IF loc.i + 1 < 64 THEN "w" ELSE "round"
    /\ UNCHANGED <<argv, tree, mainVars, queueVars, records, recMutex, pc, workerLocals,
                   exitCode, out, history, file, fed, ctx, blocks, digests>>

\* transform: for (int i = 0; i < 64; i++) { t1 = ...; t2 = ...; hh = g; ... a = t1 + t2; }
transform_round ==
    /\ hpc = "round"
    /\ loc' = [loc EXCEPT !.s = Round(loc.s, loc.w, loc.i), !.i = loc.i + 1]
    /\ hpc' = IF loc.i + 1 < 64 THEN "round" ELSE "add"
    /\ UNCHANGED <<argv, tree, mainVars, queueVars, records, recMutex, pc, workerLocals,
                   exitCode, out, history, file, fed, ctx, blocks, digests>>

\* transform: h[0] += a; ... h[7] += hh;  and the return to update or final
transform_add ==
    /\ hpc = "add"
    /\ ctx' = [ctx EXCEPT !.h = AddWords(ctx.h, loc.s)]
    /\ hpc' = loc.ret
    /\ loc' = NoLocals
    /\ UNCHANGED <<argv, tree, mainVars, queueVars, records, recMutex, pc, workerLocals,
                   exitCode, out, history, file, fed, blocks, digests>>

\* update: ... buffer.erase(buffer.begin(), buffer.begin() + 64); }
update_erase ==
    /\ hpc = "erase"
    /\ ctx' = [ctx EXCEPT !.buffer = Erase(@)]
    /\ hpc' = "update"
    /\ UNCHANGED <<argv, tree, mainVars, queueVars, records, recMutex, pc, workerLocals,
                   exitCode, out, history, file, fed, loc, blocks, digests>>

\* final: the padding, then transform(buffer.data());
final_pad ==
    /\ hpc = "final"
    /\ LET padded == Pad(ctx.buffer, ctx.bitlen)
       IN  /\ ctx' = [ctx EXCEPT !.buffer = padded]
           /\ loc' = Call(Front(padded), ctx.h, "hex")
           /\ blocks' = Append(blocks, Front(padded))
    /\ hpc' = "w"
    /\ UNCHANGED <<argv, tree, mainVars, queueVars, records, recMutex, pc, workerLocals,
                   exitCode, out, history, file, fed, digests>>

\* final: the hex string of h; hashFile returns it.
final_hex ==
    /\ hpc = "hex"
    /\ digests' = Append(digests, Hex(ctx.h))
    /\ hpc' = "returned"
    /\ UNCHANGED <<argv, tree, mainVars, queueVars, records, recMutex, pc, workerLocals,
                   exitCode, out, history, file, fed, ctx, loc, blocks>>

\* The same file is hashed a second time: SHA256 ctx;
hashFile_again ==
    /\ hpc = "returned"
    /\ Len(digests) = 1
    /\ ctx' = NewCtx
    /\ fed' = 0
    /\ blocks' = <<>>
    /\ hpc' = "read"
    /\ UNCHANGED <<argv, tree, mainVars, queueVars, records, recMutex, pc, workerLocals,
                   exitCode, out, history, file, loc, digests>>

Next ==
    \/ MainStep
    \/ \E w \in Threads : WorkerStep(w)
    \/ \E w \in Threads : spurious_wakeup(w)

\* Every command line (the subcommands without argv[3] run DefaultWorkers workers).
Spec == Init /\ [][Next]_vars

\* The worker pool under every worker count of the command line.
PoolSpec == PoolInit /\ [][Next]_vars

\* The worker pool with at least one worker.
ActiveSpec == ActiveInit /\ [][Next]_vars

\* checksum <root> a: DefaultWorkers workers, then queryChecksum (and a
\* command line too short).
ChecksumArgvSet == {<<"prog">>, <<"prog", "checksum", "root", <<"a">>>>}

ChecksumInit == InitWith(ChecksumArgvSet)

ChecksumSpec == ChecksumInit /\ [][Next]_vars

\* The queries over a finished store: indexDirectory has returned the Records
\* of n files (that can be opened or not) in some order of completion; the
\* DefaultWorkers workers of find and checksum have ended.
QueryNames == { <<"a">>, <<"b">>, <<"a", "b">>, <<"c">> }

\* Texts of minMB at and around 2^44 and 2^64, where minMB * 2^20 passes 2^64:
\* 2^44, 2^44 + 1, 2^64 - 1, 2^64 and -1.
LargeTexts ==
    { <<"1","7","5","9","2","1","8","6","0","4","4","4","1","6">>,
      <<"1","7","5","9","2","1","8","6","0","4","4","4","1","7">>,
      <<"1","8","4","4","6","7","4","4","0","7","3","7","0","9","5","5","1","6","1","5">>,
      <<"1","8","4","4","6","7","4","4","0","7","3","7","0","9","5","5","1","6","1","6">>,
      <<"-", "1">> }

QueryArgvSet ==
    {<<"prog", "find", "root", IntText(n)>> : n \in 0..MaxMinMB}
    \cup {<<"prog", "find", "root", text>> : text \in LargeTexts}
    \cup {<<"prog", "checksum", "root", name>> : name \in QueryNames}

Orders(n) == {f \in [1..n -> 1..n] : \A i, j \in 1..n : i # j => f[i] # f[j]}

QueryInit ==
    /\ argv \in QueryArgvSet
    /\ \E n \in 0..MaxRecords :
          /\ tree \in [1..n -> {"ok", "noopen"}]
          /\ \E order \in Orders(n) : records = [i \in 1..n |-> MakeRecord(order[i])]
          /\ it = n
          /\ pushed = [i \in 1..n |-> i]
          /\ popped = [i \in 1..n |-> i]
    /\ mainpc = "returned"
    /\ workers = DefaultWorkers
    /\ threads = DefaultWorkers
    /\ joined = DefaultWorkers
    /\ q_ = <<>>
    /\ done_ = TRUE
    /\ doneCalls = 1
    /\ m_ = {}
    /\ cv_ = {}
    /\ recMutex = {}
    /\ pc = [w \in Threads |-> IF w <= DefaultWorkers THEN "exit" ELSE "unspawned"]
    /\ p = [w \in Threads |-> 0]
    /\ r = [w \in Threads |-> NoRecord]
    /\ exitCode = {}
    /\ out = <<>>
    /\ NoHashing

QueryNext == query

QuerySpec == QueryInit /\ [][QueryNext]_vars

\* hashFile over each of Files, twice; nothing else of the program runs.
HashInit ==
    /\ argv = <<"prog">>
    /\ tree = <<>>
    /\ mainpc = "main"
    /\ workers = 0
    /\ threads = 0
    /\ it = 0
    /\ joined = 0
    /\ q_ = <<>>
    /\ done_ = FALSE
    /\ m_ = {}
    /\ cv_ = {}
    /\ records = <<>>
    /\ recMutex = {}
    /\ pc = [w \in Threads |-> "unspawned"]
    /\ p = [w \in Threads |-> 0]
    /\ r = [w \in Threads |-> NoRecord]
    /\ exitCode = {}
    /\ out = <<>>
    /\ pushed = <<>>
    /\ popped = <<>>
    /\ doneCalls = 0
    /\ file \in Files
    /\ fed = 0
    /\ ctx = NewCtx
    /\ hpc = "read"
    /\ loc = NoLocals
    /\ blocks = <<>>
    /\ digests = <<>>

HashNext ==
    \/ hashFile_read
    \/ update_loop
    \/ transform_w
    \/ transform_round
    \/ transform_add
    \/ update_erase
    \/ final_pad
    \/ final_hex
    \/ hashFile_again

HashSpec == HashInit /\ [][HashNext]_vars

\* Scheduling: a thread that can run infinitely often does run (the lock of a
\* mutex that is free again and again is eventually granted).  A spurious
\* wakeup is never forced.
Fairness ==
    /\ SF_vars(MainStep)
    /\ \A w \in Threads : SF_vars(WorkerStep(w))

FairSpec == PoolSpec /\ Fairness

\* ------------------------------------------------------------ properties
\* Number of times x occurs in the sequence s.
Count(s, x) == Cardinality({i \in 1..Len(s) : s[i] = x})
Range(s) == {s[i] : i \in 1..Len(s)}
Paths == 1..Len(tree)
RecordPaths == [i \in 1..Len(records) |-> records[i].path]
SpawnedThreads == 1..threads
InPop(w) == pc[w] \in {"pop_lock", "pop", "pop_wait", "wait_relock"}

\* C1: no pushed path is returned by more than one successful pop: for every
\* path, the successful pops that returned it are at most as many as its
\* pushes, and at most one.
C1_NoDuplicatePop ==
    \A x \in Paths :
        /\ Count(popped, x) <= Count(pushed, x)
        /\ Count(popped, x) <= 1

\* Two workers have popped concurrently: each holds a path of its own while
\* the other is still at work on its path.
C1_Witness ==
    \E v, w \in SpawnedThreads :
        /\ v # w
        /\ pc[v] \in {"index", "rec_lock", "push_back"}
        /\ pc[w] \in {"index", "rec_lock", "push_back"}
        /\ Len(popped) = 2

\* C2: no pushed path is lost: when indexDirectory has returned the queue is
\* empty, and once the process has ended every pushed path has been returned
\* by a successful pop.
C2_NoLostPath ==
    /\ mainpc = "returned" => q_ = <<>>
    /\ ~Alive => \A x \in Range(pushed) : Count(popped, x) >= 1

\* The regular files the scan enqueued that can be read (metadata and bytes).
ReadableEnqueued == {x \in Range(pushed) : tree[x] = "ok"}

\* C3: when indexDirectory returns, the record store holds exactly one Record
\* per readable regular file the scan enqueued (same paths, same number).
C3_OneRecordPerReadableFile ==
    mainpc = "returned" =>
        /\ Range(RecordPaths) = ReadableEnqueued
        /\ Len(records) = Cardinality(ReadableEnqueued)

\* C4: a Record is in the store only for a path whose metadata was read and
\* whose byte stream was opened and hashed: no Record of a path that cannot be
\* opened, no Record with an empty hash.
C4_RecordOnlyIfHashed ==
    \A i \in 1..Len(records) :
        /\ tree[records[i].path] = "ok"
        /\ records[i].hash # ""

\* The tree of C5: regular files that can be read and files whose metadata
\* cannot, at least one of each; no other failure.
MetadataFailureAmongReadable ==
    /\ \A x \in Paths : tree[x] \in {"ok", "nometa", "dir"}
    /\ \E x \in Paths : tree[x] = "nometa"
    /\ \E x \in Paths : tree[x] = "ok"

ReadablePaths == {x \in Paths : tree[x] = "ok"}

\* C5 (step): the step of a worker whose metadata read fails appends no Record,
\* takes the worker to its next pop and changes nothing of another worker.
C5_FailureStep ==
    \A w \in Threads :
        (pc[w] = "index" /\ MetadataThrows(p[w]) /\ pc'[w] # pc[w]) =>
            /\ records' = records
            /\ pc'[w] = "pop_lock"
            /\ \A v \in Threads \ {w} : pc'[v] = pc[v] /\ p'[v] = p[v] /\ r'[v] = r[v]
            /\ UNCHANGED <<mainVars, queueVars, recMutex>>

\* C5 (result): with failing paths among N readable ones and a worker running,
\* indexDirectory returns exactly the N Records of the readable files, one
\* each, and the process is not terminated.
C5_Result ==
    (threads >= 1 /\ MetadataFailureAmongReadable) =>
        /\ mainpc # "terminated"
        /\ mainpc \in {"returned", "exited"} =>
              /\ Len(records) = Cardinality(ReadablePaths)
              /\ Range(RecordPaths) = ReadablePaths

\* C5: a per-file metadata failure is isolated to its job: no Record for it,
\* the worker goes on, no other worker is affected, the run ends with exactly
\* the Records of the readable files, without crash and without hang.
C5_FailureIsolated ==
    /\ [][C5_FailureStep]_vars
    /\ []C5_Result
    /\ (threads >= 1 /\ MetadataFailureAmongReadable) ~> (mainpc = "exited")

\* A run over a failing and a readable file has ended with the one Record.
C5_Witness ==
    /\ mainpc = "exited"
    /\ threads >= 1
    /\ MetadataFailureAmongReadable
    /\ Len(records) = 1
    /\ \E x \in Range(popped) : tree[x] = "nometa"

\* C6: after done, every worker in pop (blocked, or calling it later) returns
\* from it, no worker stays blocked in wait, and every worker ends (pop has
\* returned false to it).
C6_DoneReleasesAll ==
    /\ \A w \in Threads : (done_ /\ InPop(w)) ~> ~InPop(w)
    /\ done_ ~> (cv_ = {} /\ \A w \in SpawnedThreads : pc[w] = "exit")

\* done has woken two workers that were blocked in wait (nothing was ever
\* pushed, so no push woke them): both are leaving wait.
C6_Witness ==
    /\ done_
    /\ pushed = <<>>
    /\ \E v, w \in SpawnedThreads : v # w /\ pc[v] = "wait_relock" /\ pc[w] = "wait_relock"

\* A step of a worker inside pop with m_ held: what it returns, and when.
C7_PopStep ==
    \A w \in Threads :
        pc[w] = "pop" =>
            /\ pc'[w] = "exit" => done_ /\ q_ = <<>>
            /\ pc'[w] = "index" => q_ # <<>> /\ q_' = Tail(q_) /\ p'[w] = Head(q_)
            /\ pc'[w] \in {"pop", "exit", "index", "pop_wait"}

\* C7: pop returns false only when done_ is set and the queue is empty, and
\* returns true only having removed the front item of a non-empty queue.
C7_PopReturns == [][C7_PopStep]_vars

\* One worker got the closed signal after another got an item.
C7_Witness ==
    \E v, w \in SpawnedThreads :
        /\ pc[v] = "exit"
        /\ pc[w] \in {"index", "rec_lock", "push_back"}

\* A step into, or after, the return of indexDirectory.
C8_Step ==
    /\ mainpc' \in {"returned", "exited"} => \A w \in 1..threads' : pc'[w] = "exit"
    /\ mainpc \in {"returned", "exited"} => records' = records

\* C8: indexDirectory returns only after every worker got the closed signal
\* and returned, and no Record is appended after that.
C8_ReturnAfterWorkers == [][C8_Step]_vars

\* indexDirectory has returned the Records of two workers.
C8_Witness ==
    /\ mainpc = "returned"
    /\ threads >= 2
    /\ Len(records) >= 2

\* C9: an unreadable subdirectory met by the scan does not end the run: the
\* process is not terminated there (the scan goes on to done and join).
C9_UnreadableDirNotFatal ==
    (it > 0 /\ tree[it] = "baddir") => mainpc # "terminated"

\* A required argument of the subcommand is missing.
MissingArgs == argc < MinArgc \/ (mode \in {"find", "checksum"} /\ argc < 4)

\* C10: with a required argument missing the process exits with code 1 and no
\* indexing work begins (no worker, no scan, no push); a normal completion
\* exits with code 0.
C10_UsageExitBeforeWork ==
    /\ MissingArgs =>
          /\ threads = 0 /\ it = 0 /\ pushed = <<>>
          /\ mainpc = "exited" => exitCode = {ExitUsage}
    /\ (~MissingArgs /\ mainpc = "exited") => exitCode = {ExitOk}

\* The threshold of the find query on the command line, in bytes.
FindThreshold == threshold(stoull(argv[4]).val)

\* The positions of the store whose Record is larger than the threshold.
LargerThanThreshold == {i \in 1..Len(records) : Less(FindThreshold, U64(records[i].size))}

\* C11: queryFind prints, in store order, exactly the Records whose size is
\* strictly greater than the threshold (a Record of equal size is not
\* printed), each exactly once, with its path and size.
C11_FindStrictlyAbove ==
    (argc >= 4 /\ mode = "find" /\ mainpc = "exited") =>
        /\ Len(out) = Cardinality(LargerThanThreshold)
        /\ \E f \in [1..Len(out) -> LargerThanThreshold] :
              /\ \A i, j \in 1..Len(out) : i < j => f[i] < f[j]
              /\ \A i \in 1..Len(out) :
                    out[i] = [path |-> records[f[i]].path, size |-> records[f[i]].size]

\* find has run over a store that holds a Record of exactly the threshold's
\* size before larger ones: the equal one is skipped, the larger ones printed.
C11_Witness ==
    /\ argc >= 4 /\ mode = "find" /\ mainpc = "exited"
    /\ Len(records) >= 3
    /\ U64(records[1].size) = FindThreshold
    /\ Len(out) >= 2
    /\ Len(out) < Len(records)

\* The positions of the store whose Record has the filename asked for.
SameFilename == {i \in 1..Len(records) : records[i].filename = argv[4]}

\* C12: queryChecksum prints the hash of the first Record in store order whose
\* filename equals the name exactly, and nothing else; it prints the
\* not-found line exactly when no Record has that filename, and main then
\* still returns 0.
C12_ChecksumFirstMatch ==
    (argc >= 4 /\ mode = "checksum" /\ mainpc = "exited") =>
        /\ exitCode = {ExitOk}
        /\ Len(out) = 1
        /\ out[1] = NotFound <=> SameFilename = {}
        /\ \A i \in SameFilename :
              (\A j \in SameFilename : i <= j) => out[1] = records[i].hash

\* checksum has printed the hash of the first of two Records of the same
\* filename and different hashes.
C12_Witness ==
    /\ argc >= 4 /\ mode = "checksum" /\ mainpc = "exited"
    /\ \E i, j \in SameFilename :
          /\ i < j
          /\ records[i].hash # records[j].hash
          /\ records[i].hash # ""
          /\ out = <<records[i].hash>>

\* e3b0c44298fc1c149afbf4c8996fb92427ae41e4649b934ca495991b7852b855
EmptyDigest ==
    <<"e", "3", "b", "0", "c", "4", "4", "2", "9", "8", "f", "c", "1", "c", "1", "4",
      "9", "a", "f", "b", "f", "4", "c", "8", "9", "9", "6", "f", "b", "9", "2", "4",
      "2", "7", "a", "e", "4", "1", "e", "4", "6", "4", "9", "b", "9", "3", "4", "c",
      "a", "4", "9", "5", "9", "9", "1", "b", "7", "8", "5", "2", "b", "8", "5", "5">>

\* ba7816bf8f01cfea414140de5dae2223b00361a396177a9cb410ff61f20015ad
AbcDigest ==
    <<"b", "a", "7", "8", "1", "6", "b", "f", "8", "f", "0", "1", "c", "f", "e", "a",
      "4", "1", "4", "1", "4", "0", "d", "e", "5", "d", "a", "e", "2", "2", "2", "3",
      "b", "0", "0", "3", "6", "1", "a", "3", "9", "6", "1", "7", "7", "a", "9", "c",
      "b", "4", "1", "0", "f", "f", "6", "1", "f", "2", "0", "0", "1", "5", "a", "d">>

\* C13: the hash engine gives the standard digests e3b0c442...b855 of the
\* empty byte stream and ba7816bf...15ad of the three bytes "abc" (97, 98,
\* 99), however the bytes are passed to update.
C13_ReferenceDigests ==
    \A d \in 1..Len(digests) :
        /\ file = <<>> => digests[d] = EmptyDigest
        /\ file = <<97, 98, 99>> => digests[d] = AbcDigest

\* "abc" has been hashed twice, the second time byte by byte or in one piece.
C13_Witness ==
    /\ file = <<97, 98, 99>>
    /\ Len(digests) = 2
    /\ digests[2] = AbcDigest

\* The padded message of the standard for the file: its bytes, 0x80, zeros up
\* to 56 modulo 64, the bit length in 8 bytes.
PaddedFile == Pad(file, 8 * Len(file))

\* The blocks of 64 bytes of a message whose length is a multiple of 64.
BlocksOf(message) ==
    [j \in 1..(Len(message) \div BlockSize) |->
        SubSeq(message, BlockSize * (j - 1) + 1, BlockSize * j)]

\* C14: for a file of any length, every 64-byte block of the padded message is
\* passed to transform exactly once, in order: when hashFile returns, the
\* calls of transform are as many as the padded length divided by 64, also
\* for a length of 56..63 modulo 64, where the padding takes a second block.
C14_EveryPaddedBlockCompressed ==
    hpc = "returned" =>
        /\ Len(blocks) = Len(PaddedFile) \div BlockSize
        /\ blocks = BlocksOf(PaddedFile)

\* What the code compresses of a file: its whole blocks, then the first block
\* of the padded rest.
CompressedOf(content) ==
    LET whole == Len(content) \div BlockSize
        rest == SubSeq(content, BlockSize * whole + 1, Len(content))
    IN  BlocksOf(SubSeq(content, 1, BlockSize * whole))
        \o <<Front(Pad(rest, 8 * Len(content)))>>

\* C15: the digest depends on the content only: whatever the split of the
\* bytes into update calls, the blocks compressed are the same (a function of
\* the content), and hashing the same content again, split in another way,
\* returns the same digest.
C15_DigestOfContentOnly ==
    /\ hpc = "returned" => blocks = CompressedOf(file)
    /\ \A d \in 1..Len(digests) : digests[d] = digests[1]

\* A file of more than one block has been hashed in one update call and then
\* again in pieces.
C15_Witness ==
    /\ hpc = "returned"
    /\ Len(digests) = 2
    /\ Len(file) > BlockSize
    /\ Len(blocks) >= 2

\* C18: when an update call has returned, buffer holds fewer than 64 bytes,
\* namely the last (total modulo 64) bytes passed so far, bitlen is 8 times
\* the total, and the blocks compressed are the whole blocks of the total.
C18_UpdateInvariant ==
    hpc = "read" =>
        /\ Len(ctx.buffer) < BlockSize
        /\ Len(ctx.buffer) = fed % BlockSize
        /\ ctx.buffer = SubSeq(file, fed - (fed % BlockSize) + 1, fed)
        /\ ctx.bitlen = 8 * fed
        /\ Len(blocks) = fed \div BlockSize
        /\ blocks = BlocksOf(SubSeq(file, 1, fed - (fed % BlockSize)))

\* An update call that brought the total to a whole number of blocks from an
\* odd position has returned: two blocks compressed, nothing buffered.
C18_Witness ==
    /\ hpc = "read"
    /\ Len(digests) = 1
    /\ fed = 2 * BlockSize
    /\ Len(blocks) = 2
    /\ ctx.buffer = <<>>

\* The workers between a successful pop and the end of their append.
Indexing(w) == pc[w] \in {"index", "rec_lock", "push_back"}

\* C16 (step): the store changes only by one append, of the Record of the
\* worker that holds recMutex, at the end; everything before stays in place.
C16_Step ==
    \/ records' = records
    \/ \E w \in Threads :
          /\ pc[w] = "push_back"
          /\ recMutex = {w}
          /\ records' = Append(records, r[w])

\* C16 (state): at most one worker is inside the critical section, and it
\* holds recMutex; no append is lost: the Records in the store, with the
\* paths still being indexed, are the popped paths whose metadata can be read,
\* each once, each Record being the one built for its path.
C16_State ==
    /\ Cardinality({w \in Threads : pc[w] = "push_back"}) <= 1
    /\ \A w \in Threads : pc[w] = "push_back" => recMutex = {w}
    /\ \A i \in 1..Len(records) : records[i] = MakeRecord(records[i].path)
    /\ \A x \in Paths :
          Count(RecordPaths, x)
            + Cardinality({w \in Threads : Indexing(w) /\ p[w] = x /\ ~MetadataThrows(x)})
          = IF MetadataThrows(x) THEN 0 ELSE Count(popped, x)

\* C16: the record store is append-only and safe under concurrent appends: it
\* only grows, earlier Records keep their position, each append adds exactly
\* one Record, none is lost, and at most one worker is in the critical section.
C16_AppendOnlyStore == [][C16_Step]_vars /\ []C16_State

\* Two workers append at the same time: one is in the critical section, the
\* other waits for recMutex.
C16_Witness ==
    \E v, w \in SpawnedThreads :
        /\ pc[v] = "push_back"
        /\ pc[w] = "rec_lock"
        /\ recMutex = {v}

\* The files of the tree that get a Record, in the order of the scan.
RecordedFiles == SelectSeq([i \in 1..Len(tree) |-> i],
                           LAMBDA x : tree[x] \in {"ok", "noopen"})

\* The store of the execution in which the Records are appended in the order
\* of the scan (one worker at a time).
ScanOrderStore == [i \in 1..Len(RecordedFiles) |-> MakeRecord(RecordedFiles[i])]

\* C17 (as claimed): for a fixed tree the hash printed by checksum is the same
\* in every execution: it is the one printed by the execution that appends
\* the Records in the order of the scan, whatever the interleaving.
C17_SameHashEveryRun ==
    (argc >= 4 /\ mode = "checksum" /\ mainpc = "exited") =>
        out = queryChecksum(ScanOrderStore, argv[4])

\* The hashes of the recorded files of the tree that have the filename asked for.
HashesOfThatName ==
    {hashFile(x) : x \in {y \in Range(RecordedFiles) : Attr(FileNames, y) = argv[4]}}

\* C17 (amended): the hash printed by checksum is the hash of the first Record
\* in store order that has the filename, which is the hash of one of the
\* files of that basename; which one depends on the order in which the
\* workers appended.  It is the same in every execution when the files of
\* that basename do not differ in their hash (or there is only one).
C17_HashOfFirstInStoreOrder ==
    (argc >= 4 /\ mode = "checksum" /\ mainpc = "exited") =>
        /\ SameFilename = {} => out = <<NotFound>>
        /\ \A i \in SameFilename :
              (\A j \in SameFilename : i <= j) =>
                  out = <<records[i].hash>> /\ out[1] \in HashesOfThatName
        /\ Cardinality(HashesOfThatName) <= 1 => out = queryChecksum(ScanOrderStore, argv[4])

\* checksum has printed the hash of the second of two files of the same
\* basename: the worker that popped it appended first.
C17_Witness ==
    /\ argc >= 4 /\ mode = "checksum" /\ mainpc = "exited"
    /\ Len(records) = 2
    /\ records[1].path = 2
    /\ records[1].filename = records[2].filename
    /\ out = <<records[1].hash>>
    /\ out # queryChecksum(ScanOrderStore, argv[4])

\* The regular files of the tree, in the order of the scan.
FilesInScanOrder == SelectSeq([i \in 1..Len(tree) |-> i], LAMBDA x : tree[x] \in FileKinds)

\* C19: the queue is closed only after the scan has pushed every path it
\* discovers (every regular file of the tree), no push happens after done,
\* and done is called exactly once in every run of indexDirectory: never
\* twice, and once when the run has ended.
C19_ClosedOnceAfterScan ==
    /\ done_ =>
          /\ it = Len(tree)
          /\ pushed = FilesInScanOrder
          /\ mainpc \notin {"spawn", "scan", "push_lock", "push"}
    /\ doneCalls <= 1
    /\ (argc >= MinArgc /\ ~Alive) => doneCalls = 1

\* C20: the JobQueue is FIFO: the paths returned by the successful pops, in
\* the order in which the pops held m_, followed by the paths still queued,
\* are the paths pushed, in the order of the pushes.
C20_Fifo == popped \o q_ = pushed

\* Two paths were queued and two workers have popped them, the first pushed
\* first.
C20_Witness ==
    /\ Len(pushed) = 2
    /\ popped = pushed
    /\ \E v, w \in SpawnedThreads : v # w /\ p[v] = popped[1] /\ p[w] = popped[2]

\* ---------------------------------------------------------------------------
\* C21: the threshold of find
\* ---------------------------------------------------------------------------

\* minMB * 1,048,576 as a mathematical integer, for the minMB that std::stoull
\* returned.
ExactThreshold == MulAdd(MulAdd(stoull(argv[4]).val, Kibi, 0), Kibi, 0)

\* C21: for every unsigned 64-bit minMB given to find, the threshold that
\* queryFind uses equals minMB * 1,048,576 as a mathematical integer (the
\* multiplication does not wrap around), so every file that is printed has a
\* size that really exceeds minMB * 1,048,576 bytes.
C21_ThresholdDoesNotWrap ==
    (argc >= 4 /\ mode = "find" /\ mainpc = "exited") =>
        /\ ~Less(FindThreshold, ExactThreshold)
        /\ ~Less(ExactThreshold, FindThreshold)
        /\ \A i \in 1..Len(out) : Less(ExactThreshold, U64(out[i].size))

\* ---------------------------------------------------------------------------
\* C22: indexDirectory without a worker
\* ---------------------------------------------------------------------------

\* main has read a worker count of 0 or less from the command line.
NoWorkerRun ==
    /\ argc >= 4 /\ mode = "index" /\ stoi(argv[4]).ok
    /\ mainpc # "main"
    /\ workers <= 0

\* C22: indexDirectory terminates for every worker count, 0 and negative
\* counts included: without a worker no thread is started, the scan thread is
\* never blocked and never ends the process abnormally, and once
\* indexDirectory has returned the queue is closed, the record store is empty
\* and every pushed path is still in the queue, unprocessed.
C22_ReturnsWithoutWorkers ==
    NoWorkerRun =>
        /\ threads = 0
        /\ mainpc # "terminated"
        /\ mainpc \notin {"returned", "exited"} => ENABLED MainStep
        /\ mainpc \in {"returned", "exited"} =>
              /\ done_
              /\ records = <<>>
              /\ popped = <<>>
              /\ q_ = pushed
              /\ pushed = FilesInScanOrder

\* ---------------------------------------------------------------------------
\* C23: the two mutexes
\* ---------------------------------------------------------------------------

AllThreads == Threads \cup {MainThread}

\* Thread t is blocked in the lock of a mutex that another thread holds.
WaitsForLock(t) ==
    \/ t = MainThread /\ mainpc \in {"push_lock", "done_lock"} /\ m_ # {}
    \/ t \in Threads /\ pc[t] \in {"pop_lock", "wait_relock"} /\ m_ # {}
    \/ t \in Threads /\ pc[t] = "rec_lock" /\ recMutex # {}

\* C23: no thread ever holds the queue mutex m_ and the record-store mutex
\* recMutex at the same time; a thread that holds one of them is at the step
\* that releases it, and that step can be taken whatever the state of the
\* other mutex (it never waits for the other mutex); a thread that holds a
\* mutex is not itself waiting for a lock, and while indexDirectory runs some
\* thread can always take a step, so no state of the running process is a
\* deadlock on the two locks.
C23_NoLockCycle ==
    /\ \A t \in AllThreads : ~(t \in m_ /\ t \in recMutex)
    /\ Cardinality(m_) <= 1 /\ Cardinality(recMutex) <= 1
    /\ m_ \subseteq AllThreads /\ recMutex \subseteq Threads
    /\ MainThread \in m_ => mainpc \in {"push", "done"} /\ ENABLED (push \/ done)
    /\ \A w \in Threads :
          /\ w \in m_ => pc[w] = "pop" /\ (Alive => ENABLED pop(w))
          /\ w \in recMutex => pc[w] = "push_back" /\ (Alive => ENABLED push_back(w))
    /\ \A t \in AllThreads : t \in (m_ \cup recMutex) => ~WaitsForLock(t)
    /\ (Alive /\ mainpc # "returned") => ENABLED (MainStep \/ \E w \in Threads : WorkerStep(w))

\* One worker holds recMutex while another holds m_ and the scan thread is
\* blocked in the lock of m_: both mutexes are held, by different threads.
C23_Witness ==
    \E w, v \in Threads :
        /\ w # v
        /\ recMutex = {w} /\ pc[w] = "push_back"
        /\ m_ = {v} /\ pc[v] = "pop"
        /\ WaitsForLock(MainThread)

=============================================================================
